---- MODULE Spec2Model ----
(***************************************************************************)
(* Model of vmi's provisioning pipeline, load_ami_to_device (src/src/lib.rs) *)
(* and of the metadata helpers it calls.  A run is one call of              *)
(* load_ami_to_device; its position is pc[r], its Rust locals are the       *)
(* per-run variables, and every request it sends to the outside (image      *)
(* catalog, instance metadata service, volume API) is appended to log[r]    *)
(* together with the raw answer it got.  The filesystem, the metadata       *)
(* service and the EC2 API are the environment: their answers are drawn     *)
(* from small sets.  The binary's main (src/src/main.rs) is modelled by     *)
(* SpecMain, and the extraction of the snapshot id from a describe_images   *)
(* output, taken alone, by SpecExtract.                                     *)
(***************************************************************************)
EXTENDS Integers, Sequences, FiniteSets, TLC

\* ---------------------------------------------------------------- bounds
MaxImages == 1     \* images in one describe_images answer (the query names one image id)
MaxMappings == 2   \* block-device mappings of one image
MaxSleeps == 2     \* sleeps of the device poll loop that are counted
MaxBuckets == 1    \* buckets in one list_buckets answer
MaxListed == 2     \* images in one describe_images answer, snapshot extraction alone

\* ------------------------------------------------------ program constants
SEND_TIMEOUT_SECS == 3      \* timeout(Duration::from_secs(3), ...)
MAX_WAIT_SECS == 60         \* let max_wait = Duration::from_secs(60)

AWS_TOKEN_API_URL == "http://169.254.169.254/latest/api/token"
AWS_INSTANCE_ID_URL == "http://169.254.169.254/latest/meta-data/instance-id"
AWS_INSTANCE_AVAILABILITY_ZONE ==
    "http://169.254.169.254/latest/meta-data/placement/availability-zone"

\* ----------------------------------------------------------- value sets
Runs == {1, 2}
Paths == {"/dev/xvdg", "/dev/xvdh"}
Amis == {"ami-1"}
Snapshots == {"snap-1", "snap-2"}
\* The texts the token endpoint answers with, as their bytes: "tok-1", "tok-2"
\* and "tok-1" followed by a line feed.
TOK_1 == <<116, 111, 107, 45, 49>>
TOK_2 == <<116, 111, 107, 45, 50>>
Tokens == {TOK_1, TOK_2, TOK_1 \o <<10>>}
InstanceIds == {"i-1", "i-2"}
Zones == {"us-east-1a", "us-east-1b"}
VolumeIds == {"vol-1", "vol-2"}

\* Option<T>: None is the empty sequence, Some(x) the one-element sequence.
None == <<>>
Some(x) == <<x>>
Option(S) == {None} \cup {Some(x) : x \in S}
IsSome(o) == Len(o) > 0
Unwrap(o) == o[1]

\* Vec<T> with at most n elements.
SeqUpTo(S, n) == UNION {[1..k -> S] : k \in 0..n}

\* A value that a dropped or not yet bound local holds in the model.
Unset == "-"

\* The same for the local token, which holds bytes.
NoToken == <<>>

\* ------------------------------------------------- answers of the outside
\* Seconds after which an answer arrives (metadata) or the volume settles.
Latencies == {1, 90}

\* What the metadata service does with one request: when it answers, whether
\* hyper reports an error instead of a response, the status line, and whether
\* the body can be read and is UTF-8.  What the client cannot observe is left
\* at its default: nothing of a response that comes too late or not at all,
\* and no body of a response that is refused.
HttpAnswers ==
    {a \in [latency : Latencies, error : BOOLEAN, status : {200, 404},
            body : {"text", "broken", "binary"}] :
        /\ (a.latency > SEND_TIMEOUT_SECS \/ a.error) => (a.status = 200 /\ a.body = "text")
        /\ a.latency > SEND_TIMEOUT_SECS => ~a.error
        /\ a.status # 200 => a.body = "text"}

\* One block-device mapping, image and describe_images answer of the catalog.
Ebs == [snapshot_id : Option(Snapshots)]
Mappings == [ebs : Option(Ebs)]
Images == [block_device_mappings : Option(SeqUpTo(Mappings, MaxMappings))]
CatalogAnswers ==
    {[error |-> TRUE, images |-> None]}
        \cup {[error |-> FALSE, images |-> i] : i \in Option(SeqUpTo(Images, MaxImages))}

CreateAnswers ==
    {[error |-> TRUE, volume_id |-> None]}
        \cup {[error |-> FALSE, volume_id |-> v] : v \in Option(VolumeIds)}

\* The state the volume settles in, and after how many seconds.
WaitAnswers == [state : {"available", "error"}, after : Latencies]

AttachAnswers == [accepted : BOOLEAN]

\* ---------------------------------------------------------------- state
VARIABLES
    fs,                    \* filesystem: path -> an entry exists there
    host,                  \* identity of the EC2 host the runs execute on
    pc,                    \* run -> position in load_ami_to_device
    ami_id,                \* run -> argument ami_id
    device_path,           \* run -> argument device_path
    snapshot_id,           \* run -> local snapshot_id
    token,                 \* run -> local token of get_ec2_instance_id_and_zone
    id,                    \* run -> local id of get_ec2_instance_id_and_zone
    ec2_host_instance_id,  \* run -> local ec2_host_instance_id
    zone,                  \* run -> local zone
    volume_id,             \* run -> local volume_id
    result,                \* run -> how the call ended
    log,                   \* run -> the requests sent so far, with their answers
    existedAtStart,        \* run -> what the filesystem held when the run began
    polls,                 \* run -> existence checks made by the poll loop
    sleeps,                \* run -> sleeps made by the poll loop
    main_pc,               \* position in main
    cli,                   \* main: the parsed command line, App::parse()
    level,                 \* main: the default log level
    stdout,                \* main: the lines printed
    images_output,         \* snapshot extraction alone: the output it is given
    extracted              \* snapshot extraction alone: what it made of the output

locals == <<snapshot_id, token, id, ec2_host_instance_id, zone, volume_id>>
mainvars == <<main_pc, cli, level, stdout>>
vars == <<fs, host, pc, ami_id, device_path, snapshot_id, token, id,
          ec2_host_instance_id, zone, volume_id, result, log, existedAtStart,
          polls, sleeps, main_pc, cli, level, stdout, images_output,
          extracted>>

\* What no step of a call of load_ami_to_device touches.
outside == <<main_pc, cli, level, stdout, images_output, extracted>>

NoResult == [class |-> Unset, how |-> Unset, detail |-> Unset]
Ok == [class |-> "Ok", how |-> "Ok", detail |-> Unset]
Err(class, detail) == [class |-> class, how |-> "Err", detail |-> detail]
Panic(class, detail) == [class |-> class, how |-> "Panic", detail |-> detail]

\* One request of a run and the answer it got.
Call(op, args, ret) == [op |-> op, args |-> args, ret |-> ret]

\* ------------------------------------------------------- pure functions
\* Option::unwrap_or_default (of a Vec) and slice::get.
UnwrapOrDefault(o) == IF IsSome(o) THEN Unwrap(o) ELSE <<>>
Get(v, i) == IF i < Len(v) THEN Some(v[i + 1]) ELSE None

\* The snapshot id load_ami_to_device takes from a describe_images output:
\* images.unwrap_or_default().get(0).and_then(block_device_mappings
\*   .and_then(get(0).and_then(ebs.and_then(snapshot_id)))).
\* Each and_then is None on None and applies the closure on Some.
SnapshotOfMapping(mapping) ==
    IF IsSome(mapping.ebs) THEN Unwrap(mapping.ebs).snapshot_id ELSE None

\* Variant: the first mapping that carries a snapshot id is taken, not
\* mappings.get(0).
SnapshotOfAnyMapping(mappings) ==
    IF \E i \in DOMAIN mappings : IsSome(SnapshotOfMapping(mappings[i]))
    THEN SnapshotOfMapping(mappings[CHOOSE i \in DOMAIN mappings :
             /\ IsSome(SnapshotOfMapping(mappings[i]))
             /\ \A j \in DOMAIN mappings :
                    IsSome(SnapshotOfMapping(mappings[j])) => i <= j])
    ELSE None

SnapshotOfMappings(mappings) ==
    IF IsSome(Get(mappings, 0)) THEN SnapshotOfMapping(Unwrap(Get(mappings, 0)))
    ELSE None

SnapshotOfImage(image) ==
    IF IsSome(image.block_device_mappings)
    THEN SnapshotOfMappings(Unwrap(image.block_device_mappings))
    ELSE None

\* Variant: the snapshot id is looked for in every image, the first one found
\* is taken.
SnapshotOfAnyImage(output) ==
    LET images == UnwrapOrDefault(output.images)
        found == {i \in DOMAIN images : IsSome(SnapshotOfImage(images[i]))}
    IN  IF found = {} THEN None
        ELSE SnapshotOfImage(images[CHOOSE i \in found : \A j \in found : i <= j])

SnapshotOf(describe_images_output) ==
    IF IsSome(Get(UnwrapOrDefault(describe_images_output.images), 0))
    THEN SnapshotOfImage(Unwrap(Get(UnwrapOrDefault(describe_images_output.images), 0)))
    ELSE None

\* StatusCode::is_success
IsSuccess(status) == status >= 200 /\ status < 300

\* Variant: the status of the response is not looked at.
SendAnyStatus(answer, text) ==
    IF answer.latency > SEND_TIMEOUT_SECS THEN [ok |-> FALSE, val |-> "timeout"]
    ELSE IF answer.error THEN [ok |-> FALSE, val |-> "hyper"]
    ELSE IF answer.body = "broken" THEN [ok |-> FALSE, val |-> "body"]
    ELSE IF answer.body = "binary" THEN [ok |-> FALSE, val |-> "utf8"]
    ELSE [ok |-> TRUE, val |-> text]

\* send: the request is given up after 3 seconds, a hyper error and a
\* non-success status are errors, and the body must be readable UTF-8.
\* text is what the body says when it can be read.
Send(answer, text) ==
    IF answer.latency > SEND_TIMEOUT_SECS THEN [ok |-> FALSE, val |-> "timeout"]
    ELSE IF answer.error THEN [ok |-> FALSE, val |-> "hyper"]
    ELSE IF ~IsSuccess(answer.status) THEN [ok |-> FALSE, val |-> "status"]
    ELSE IF answer.body = "broken" THEN [ok |-> FALSE, val |-> "body"]
    ELSE IF answer.body = "binary" THEN [ok |-> FALSE, val |-> "utf8"]
    ELSE [ok |-> TRUE, val |-> text]

\* Variant: the waiter has no deadline.
WaitUnbounded(answer, max_wait) ==
    IF answer.state # "available" THEN [ok |-> FALSE, val |-> "waiter"]
    ELSE [ok |-> TRUE, val |-> "available"]

\* wait_until_volume_available().wait(max_wait): the waiter gives up when the
\* volume has not settled within max_wait, and fails when it settles in a
\* state other than available.
WaitUntil(answer, max_wait) ==
    IF answer.after > max_wait THEN [ok |-> FALSE, val |-> "timeout"]
    ELSE IF answer.state # "available" THEN [ok |-> FALSE, val |-> "waiter"]
    ELSE [ok |-> TRUE, val |-> "available"]

\* What the metadata service holds at a value url of this host.
MetadataText(url) ==
    IF url = AWS_INSTANCE_ID_URL THEN host.instance_id
    ELSE IF url = AWS_INSTANCE_AVAILABILITY_ZONE THEN host.zone
    ELSE ""

\* std::path::Path::new(p).exists()
Exists(p) == fs[p]

\* Variant: the ensure! is missing, any device path is let through.
PreconditionSkipped(r) == TRUE

\* The condition of ensure! at the start of load_ami_to_device.
PreconditionHolds(r) == ~Exists(device_path[r])

\* Variant: the loop is never entered, Ok(()) follows the attach at once.
NeverWaiting(r) == FALSE

\* Variant: the loop spins without looking at the path again.
AlwaysWaiting(r) == TRUE

\* The condition of the while loop at the end of load_ami_to_device.
StillWaiting(r) == ~Exists(device_path[r])

\* ----------------------------------------------------------- the runs
Upd(f, r, v) == [f EXCEPT ![r] = v]

\* Variant: a failed wait or a rejected attach is followed by a request that
\* deletes the volume the run created.
SentWithRollback(r, call) ==
    log' = Upd(log, r,
               IF \/ /\ call.op = "wait_until_volume_available"
                     /\ ~WaitUntil(call.ret, MAX_WAIT_SECS).ok
                  \/ /\ call.op = "attach_volume"
                     /\ ~call.ret.accepted
               THEN Append(Append(log[r], call),
                           Call("delete_volume", <<volume_id[r]>>, "deleted"))
               ELSE Append(log[r], call))

\* The run sends one request and gets its answer.
Sent(r, call) == log' = Upd(log, r, Append(log[r], call))

\* Variant: the locals are process-wide statics, one slot shared by all runs.
DropSharedLocals(r) ==
    /\ snapshot_id' = [x \in Runs |-> Unset]
    /\ token' = [x \in Runs |-> NoToken]
    /\ id' = [x \in Runs |-> Unset]
    /\ ec2_host_instance_id' = [x \in Runs |-> Unset]
    /\ zone' = [x \in Runs |-> Unset]
    /\ volume_id' = [x \in Runs |-> Unset]

\* The frame of load_ami_to_device is gone: every local is dropped.
DropLocals(r) ==
    /\ snapshot_id' = Upd(snapshot_id, r, Unset)
    /\ token' = Upd(token, r, NoToken)
    /\ id' = Upd(id, r, Unset)
    /\ ec2_host_instance_id' = Upd(ec2_host_instance_id, r, Unset)
    /\ zone' = Upd(zone, r, Unset)
    /\ volume_id' = Upd(volume_id, r, Unset)

\* The call returns Err (through ensure! or ?) or panics (through expect).
Fail(r, res) ==
    /\ pc' = Upd(pc, r, "Failed")
    /\ result' = Upd(result, r, res)
    /\ DropLocals(r)

\* lib.rs 55-59: ensure!(!Path::new(&device_path).exists(), ...)
CheckPrecondition(r) ==
    /\ pc[r] = "Start"
    /\ existedAtStart' = Upd(existedAtStart, r, Some(fs[device_path[r]]))
    /\ IF PreconditionHolds(r)
       THEN /\ pc' = Upd(pc, r, "Checked")
            /\ UNCHANGED <<result, locals>>
       ELSE Fail(r, Err("PreconditionViolation", "device path already exists"))
    /\ UNCHANGED <<fs, host, ami_id, device_path, log, polls, sleeps>>
    /\ UNCHANGED outside

\* What a describe_images answer holds, as the log keeps it.
CatalogShape(answer) ==
    LET images == IF Len(answer.images) = 0 THEN <<>> ELSE answer.images[1]
        mappings == images[1].block_device_mappings
        ebs == mappings[1][1].ebs
    IN  IF answer.error THEN "error"
        ELSE IF Len(images) = 0 THEN "no image"
        ELSE IF Len(mappings) = 0 THEN "no mappings"
        ELSE IF Len(mappings[1]) = 0 THEN "no mappings"
        ELSE IF Len(ebs) = 0 THEN "no snapshot"
        ELSE IF Len(ebs[1].snapshot_id) = 0 THEN "no snapshot"
        ELSE "snapshot"

\* What load_ami_to_device makes of one describe_images answer: whether the
\* request failed, the snapshot id it takes from the output, and the shape.
Described(answer) ==
    [error |-> answer.error, snapshot_id |-> SnapshotOf(answer),
     shape |-> CatalogShape(answer)]

\* The same for every answer of the catalog.
DescribedAnswers == {Described(answer) : answer \in CatalogAnswers}

\* Variant: unwrap_or_default in place of expect, a missing snapshot id becomes
\* "" and is found out only by create_volume.
DescribeImagesUnchecked(r) ==
    /\ pc[r] = "Checked"
    /\ \E described \in DescribedAnswers :
         /\ Sent(r, Call("describe_images", <<ami_id[r]>>, described.shape))
         /\ IF described.error
            THEN Fail(r, Err("CatalogResolutionFailure", "describe_images"))
            ELSE /\ snapshot_id' = Upd(snapshot_id, r,
                                       IF IsSome(described.snapshot_id)
                                       THEN Unwrap(described.snapshot_id) ELSE "")
                 /\ pc' = Upd(pc, r, "SnapshotResolved")
                 /\ UNCHANGED <<result, token, id, ec2_host_instance_id, zone, volume_id>>
    /\ UNCHANGED <<fs, host, ami_id, device_path, existedAtStart, polls, sleeps>>
    /\ UNCHANGED outside

\* lib.rs 61-80: describe_images().image_ids(ami_id).send().await?, then the
\* snapshot id of the output, or a panic when there is none.
DescribeImages(r) ==
    /\ pc[r] = "Checked"
    /\ \E described \in DescribedAnswers :
         /\ Sent(r, Call("describe_images", <<ami_id[r]>>, described.shape))
         /\ IF described.error
            THEN Fail(r, Err("CatalogResolutionFailure", "describe_images"))
            ELSE IF IsSome(described.snapshot_id)
            THEN /\ snapshot_id' = Upd(snapshot_id, r, Unwrap(described.snapshot_id))
                 /\ pc' = Upd(pc, r, "SnapshotResolved")
                 /\ UNCHANGED <<result, token, id, ec2_host_instance_id, zone, volume_id>>
            ELSE Fail(r, Panic("CatalogResolutionFailure",
                               "Failed to find snapshot ID for the given AMI ID"))
    /\ UNCHANGED <<fs, host, ami_id, device_path, existedAtStart, polls, sleeps>>
    /\ UNCHANGED outside

\* lib.rs 45, 11-19: let token = get_ec2_token(&client).await?
GetEc2Token(r) ==
    /\ pc[r] = "SnapshotResolved"
    /\ \E answer \in HttpAnswers, text \in Tokens :
         /\ Sent(r, Call("get_ec2_token", <<AWS_TOKEN_API_URL>>, answer))
         /\ IF Send(answer, text).ok
            THEN /\ token' = Upd(token, r, Send(answer, text).val)
                 /\ pc' = Upd(pc, r, "TokenAcquired")
                 /\ UNCHANGED <<result, snapshot_id, id, ec2_host_instance_id, zone,
                                volume_id>>
            ELSE Fail(r, Err("AuthFailure", Send(answer, text).val))
    /\ UNCHANGED <<fs, host, ami_id, device_path, existedAtStart, polls, sleeps>>
    /\ UNCHANGED outside

\* Variant: the value request carries no session token.
ValueRequestWithoutToken(url, session_token) == [ok |-> TRUE, val |-> <<url, NoToken>>]

\* http::HeaderValue accepts the bytes of a &str when each of them is a tab or
\* is not a control character (32 and above, 127 excepted).
IsHeaderByte(b) == (b >= 32 /\ b # 127) \/ b = 9
IsHeaderValue(bytes) == \A i \in DOMAIN bytes : IsHeaderByte(bytes[i])

\* lib.rs 23-27: the GET request get_ec2_value builds, its uri and the value of
\* its X-aws-ec2-metadata-token header; the ? on the builder returns the error
\* of a token that is no header value, and nothing is sent.
ValueRequest(url, session_token) ==
    IF IsHeaderValue(session_token)
    THEN [ok |-> TRUE, val |-> <<url, session_token>>]
    ELSE [ok |-> FALSE, val |-> "failed to parse header value"]

\* lib.rs 46, 22-29: let id = get_ec2_value(&client, AWS_INSTANCE_ID_URL, &token).await?
GetInstanceId(r) ==
    /\ pc[r] = "TokenAcquired"
    /\ \E answer \in HttpAnswers :
         LET url == AWS_INSTANCE_ID_URL
             req == ValueRequest(url, token[r])
             sent == Send(answer, MetadataText(url))
         IN  IF ~req.ok
             THEN /\ Fail(r, Err("MetadataReadFailure", req.val))
                  /\ UNCHANGED log
             ELSE /\ Sent(r, Call("get_ec2_value", req.val, answer))
                  /\ IF sent.ok
                     THEN /\ id' = Upd(id, r, sent.val)
                          /\ pc' = Upd(pc, r, "InstanceIdRead")
                          /\ UNCHANGED <<result, snapshot_id, token,
                                         ec2_host_instance_id, zone, volume_id>>
                     ELSE Fail(r, Err("MetadataReadFailure", sent.val))
    /\ UNCHANGED <<fs, host, ami_id, device_path, existedAtStart, polls, sleeps>>
    /\ UNCHANGED outside

\* lib.rs 47-48, 82: let zone = get_ec2_value(.., AWS_INSTANCE_AVAILABILITY_ZONE,
\* &token).await?; Ok((id, zone)) is bound to (ec2_host_instance_id, zone).
GetZone(r) ==
    /\ pc[r] = "InstanceIdRead"
    /\ \E answer \in HttpAnswers :
         LET url == AWS_INSTANCE_AVAILABILITY_ZONE
             req == ValueRequest(url, token[r])
             sent == Send(answer, MetadataText(url))
         IN  IF ~req.ok
             THEN /\ Fail(r, Err("MetadataReadFailure", req.val))
                  /\ UNCHANGED log
             ELSE /\ Sent(r, Call("get_ec2_value", req.val, answer))
                  /\ IF sent.ok
                     THEN /\ zone' = Upd(zone, r, sent.val)
                          /\ ec2_host_instance_id' = Upd(ec2_host_instance_id, r, id[r])
                          /\ id' = Upd(id, r, Unset)
                          /\ token' = Upd(token, r, NoToken)
                          /\ pc' = Upd(pc, r, "IdentityResolved")
                          /\ UNCHANGED <<result, snapshot_id, volume_id>>
                     ELSE Fail(r, Err("MetadataReadFailure", sent.val))
    /\ UNCHANGED <<fs, host, ami_id, device_path, existedAtStart, polls, sleeps>>
    /\ UNCHANGED outside

\* Variant: unwrap_or_default in place of expect, a missing id becomes "".
VolumeIdOrDefault(create_volume_output) ==
    IF IsSome(create_volume_output.volume_id) THEN create_volume_output.volume_id
    ELSE Some("")

\* lib.rs 94-96: the volume id of a create_volume output, if it holds one.
VolumeIdOf(create_volume_output) == create_volume_output.volume_id

\* lib.rs 87-96: create_volume().availability_zone(zone).snapshot_id(snapshot_id)
\* .send().await?, then the volume id of the output, or a panic when there is none.
CreateVolume(r) ==
    /\ pc[r] = "IdentityResolved"
    /\ \E answer \in CreateAnswers :
         /\ Sent(r, Call("create_volume", <<zone[r], snapshot_id[r]>>, answer))
         /\ IF answer.error
            THEN Fail(r, Err("ProvisioningFailure", "create_volume"))
            ELSE IF IsSome(VolumeIdOf(answer))
            THEN /\ volume_id' = Upd(volume_id, r, Unwrap(VolumeIdOf(answer)))
                 /\ zone' = Upd(zone, r, Unset)
                 /\ snapshot_id' = Upd(snapshot_id, r, Unset)
                 /\ pc' = Upd(pc, r, "VolumeCreated")
                 /\ UNCHANGED <<result, token, id, ec2_host_instance_id>>
            ELSE Fail(r, Panic("ProvisioningFailure", "Failed to create volume"))
    /\ UNCHANGED <<fs, host, ami_id, device_path, existedAtStart, polls, sleeps>>
    /\ UNCHANGED outside

\* Variant: the wait is left out, the attach follows create_volume directly.
WaitLeftOut(r) ==
    /\ pc[r] = "VolumeCreated"
    /\ pc' = Upd(pc, r, "VolumeAvailable")
    /\ UNCHANGED <<fs, host, ami_id, device_path, result, locals, log,
                   existedAtStart, polls, sleeps>>
    /\ UNCHANGED outside

\* lib.rs 98-108: wait_until_volume_available().volume_ids(volume_id)
\* .wait(max_wait).await?
WaitUntilVolumeAvailable(r) ==
    /\ pc[r] = "VolumeCreated"
    /\ \E answer \in WaitAnswers :
         LET max_wait == MAX_WAIT_SECS
             waited == WaitUntil(answer, max_wait)
         IN  /\ Sent(r, Call("wait_until_volume_available", <<volume_id[r]>>, answer))
             /\ IF waited.ok
                THEN /\ pc' = Upd(pc, r, "VolumeAvailable")
                     /\ UNCHANGED <<result, locals>>
                ELSE Fail(r, Err("ProvisioningFailure", waited.val))
    /\ UNCHANGED <<fs, host, ami_id, device_path, existedAtStart, polls, sleeps>>
    /\ UNCHANGED outside

\* Variant: volume id and instance id are handed to each other's setter.
AttachRequestSwapped(r) == <<device_path[r], ec2_host_instance_id[r], volume_id[r]>>

\* lib.rs 110-114: the device, volume id and instance id of the attach request.
AttachRequest(r) == <<device_path[r], volume_id[r], ec2_host_instance_id[r]>>

\* Variant: the result of the attach request is dropped, not propagated with ?.
AttachResultDropped(answer) == TRUE

\* lib.rs 115-116: .send().await? lets the run go on only when the attach
\* request is answered with Ok.
AttachSucceeded(answer) == answer.accepted

\* Variant: the device path is looked at once more before the attach, and the
\* run gives up when it exists by then.
AttachOnlyIfAbsent(r) ==
    /\ pc[r] = "VolumeAvailable"
    /\ IF Exists(device_path[r])
       THEN /\ Fail(r, Err("PreconditionViolation", "device path already exists"))
            /\ UNCHANGED log
       ELSE \E answer \in AttachAnswers :
              /\ Sent(r, Call("attach_volume",
                              <<device_path[r], volume_id[r], ec2_host_instance_id[r]>>,
                              answer))
              /\ IF answer.accepted
                 THEN /\ pc' = Upd(pc, r, "Attached")
                      /\ ec2_host_instance_id' = Upd(ec2_host_instance_id, r, Unset)
                      /\ UNCHANGED <<result, snapshot_id, token, id, zone, volume_id>>
                 ELSE Fail(r, Err("AttachFailure", "attach_volume"))
    /\ UNCHANGED <<fs, host, ami_id, device_path, existedAtStart, polls, sleeps>>
    /\ UNCHANGED outside

\* lib.rs 110-116: attach_volume().device(device_path).volume_id(volume_id)
\* .instance_id(ec2_host_instance_id).send().await?, the statement after the wait.
AttachVolume(r) ==
    /\ pc[r] = "VolumeAvailable"
    /\ \E answer \in AttachAnswers :
         /\ Sent(r, Call("attach_volume", AttachRequest(r), answer))
         /\ IF AttachSucceeded(answer)
            THEN /\ pc' = Upd(pc, r, "Attached")
                 /\ ec2_host_instance_id' = Upd(ec2_host_instance_id, r, Unset)
                 /\ UNCHANGED <<result, snapshot_id, token, id, zone, volume_id>>
            ELSE Fail(r, Err("AttachFailure", "attach_volume"))
    /\ UNCHANGED <<fs, host, ami_id, device_path, existedAtStart, polls, sleeps>>
    /\ UNCHANGED outside

\* Counters of the poll loop stop counting at their bound.
Count(n, max) == IF n < max THEN n + 1 ELSE n

\* lib.rs 128, 133: one evaluation of the while condition; Ok(()) when it is false.
PollDevice(r) ==
    /\ pc[r] = "Attached"
    /\ polls' = Upd(polls, r, Count(polls[r], MaxSleeps + 1))
    /\ IF StillWaiting(r)
       THEN /\ pc' = Upd(pc, r, "Sleeping")
            /\ UNCHANGED <<result, locals>>
       ELSE /\ pc' = Upd(pc, r, "DeviceReady")
            /\ result' = Upd(result, r, Ok)
            /\ DropLocals(r)
    /\ UNCHANGED <<fs, host, ami_id, device_path, log, existedAtStart, sleeps>>
    /\ UNCHANGED outside

\* Variant: the loop gives up with an error once MaxSleeps sleeps have passed.
SleepWithDeadline(r) ==
    /\ pc[r] = "Sleeping"
    /\ sleeps' = Upd(sleeps, r, Count(sleeps[r], MaxSleeps))
    /\ IF sleeps[r] < MaxSleeps
       THEN /\ pc' = Upd(pc, r, "Attached")
            /\ UNCHANGED <<result, locals>>
       ELSE Fail(r, Err("DeviceWaitFailure", "timeout"))
    /\ UNCHANGED <<fs, host, ami_id, device_path, log, existedAtStart, polls>>
    /\ UNCHANGED outside

\* lib.rs 129-130: tokio::time::sleep(Duration::from_millis(500)).await
Sleep(r) ==
    /\ pc[r] = "Sleeping"
    /\ sleeps' = Upd(sleeps, r, Count(sleeps[r], MaxSleeps))
    /\ pc' = Upd(pc, r, "Attached")
    /\ UNCHANGED <<fs, host, ami_id, device_path, result, locals, log,
                   existedAtStart, polls>>
    /\ UNCHANGED outside

\* ----------------------------------------------------- the environment
\* An entry appears at a path (the operating system exposes a device, or
\* anything else creates the path), or goes away.
PathAppears(p) ==
    /\ ~fs[p]
    /\ fs' = [fs EXCEPT ![p] = TRUE]
    /\ UNCHANGED <<host, pc, ami_id, device_path, result, locals, log,
                   existedAtStart, polls, sleeps>>
    /\ UNCHANGED outside

PathVanishes(p) ==
    /\ fs[p]
    /\ fs' = [fs EXCEPT ![p] = FALSE]
    /\ UNCHANGED <<host, pc, ami_id, device_path, result, locals, log,
                   existedAtStart, polls, sleeps>>
    /\ UNCHANGED outside

\* ------------------------------------------------------ specifications
Hosts == [instance_id : InstanceIds, zone : Zones]

InitRun(started) ==
    /\ fs \in [Paths -> BOOLEAN]
    /\ host \in Hosts
    /\ pc = [r \in Runs |-> IF r \in started THEN "Start" ELSE "Idle"]
    /\ ami_id \in [Runs -> Amis]
    /\ device_path \in [Runs -> Paths]
    /\ snapshot_id = [r \in Runs |-> Unset]
    /\ token = [r \in Runs |-> NoToken]
    /\ id = [r \in Runs |-> Unset]
    /\ ec2_host_instance_id = [r \in Runs |-> Unset]
    /\ zone = [r \in Runs |-> Unset]
    /\ volume_id = [r \in Runs |-> Unset]
    /\ result = [r \in Runs |-> NoResult]
    /\ log = [r \in Runs |-> <<>>]
    /\ existedAtStart = [r \in Runs |-> None]
    /\ polls = [r \in Runs |-> 0]
    /\ sleeps = [r \in Runs |-> 0]

\* main is not running.
NoCli ==
    [verbose |-> 0,
     command |-> [kind |-> Unset, source |-> Unset, source_id |-> Unset,
                  sink |-> Unset, sink_id |-> Unset]]

NoMain ==
    /\ main_pc = "Idle"
    /\ cli = NoCli
    /\ level = Unset
    /\ stdout = <<>>

\* No describe_images output has been looked at on its own.
NotDescribed == [error |-> FALSE, snapshot_id |-> None, shape |-> Unset]

NoExtraction ==
    /\ images_output = [error |-> TRUE, images |-> None]
    /\ extracted = NotDescribed

\* One call of load_ami_to_device.
Init == InitRun({1}) /\ device_path[2] = device_path[1] /\ NoMain /\ NoExtraction

Step(r) ==
    \/ CheckPrecondition(r)
    \/ DescribeImages(r)
    \/ GetEc2Token(r)
    \/ GetInstanceId(r)
    \/ GetZone(r)
    \/ CreateVolume(r)
    \/ WaitUntilVolumeAvailable(r)
    \/ AttachVolume(r)
    \/ PollDevice(r)
    \/ Sleep(r)

Next ==
    \/ \E r \in Runs : Step(r)
    \/ \E p \in Paths : PathAppears(p)
    \/ \E p \in Paths : PathVanishes(p)

Spec == Init /\ [][Next]_vars

\* Two calls of load_ami_to_device running concurrently on one host, for the
\* same device path or for two different ones: their steps interleave at the
\* await points.
InitConc ==
    /\ InitRun({1, 2})
    /\ host = [instance_id |-> "i-1", zone |-> "us-east-1a"]
    /\ device_path[1] = "/dev/xvdg"
    /\ NoMain
    /\ NoExtraction

SpecConc == InitConc /\ [][Next]_vars

\* One call of load_ami_to_device whose poll loop is scheduled fairly: the
\* runtime polls the task again when its condition can be evaluated, and a
\* sleep of 500 ms ends.
PollLoopFairness ==
    \A r \in Runs : WF_vars(PollDevice(r)) /\ WF_vars(Sleep(r))

SpecLive == Init /\ [][Next]_vars /\ PollLoopFairness

\* ------------------------------------------------------------- main
\* The command line of the binary (main.rs): `vmi [-v..] convert SOURCE
\* SOURCE_ID SINK SINK_ID` or `vmi [-v..] inspect SOURCE SOURCE_ID`.
Sources == {"Ami", "Raw"}
Sinks == {"Device"}
SourceIds == Amis \cup {"disk.raw"}
Verbosities == 0..3

Commands ==
    [kind : {"Convert"}, source : Sources, source_id : SourceIds,
     sink : Sinks, sink_id : Paths]
    \cup
    [kind : {"Inspect"}, source : Sources, source_id : SourceIds,
     sink : {Unset}, sink_id : {Unset}]

App == [verbose : Verbosities, command : Commands]

\* The default log level chosen from the number of -v flags.
LevelOf(verbose) ==
    IF verbose >= 3 THEN "DEBUG"
    ELSE IF verbose = 2 THEN "DEBUG"
    ELSE IF verbose = 1 THEN "INFO"
    ELSE "WARN"

\* Answers of S3 to list_buckets.
BucketNames == {"images"}
CreationDates == {"2024-01-01"}
Buckets == [name : Option(BucketNames), creation_date : Option(CreationDates)]
ListBucketsAnswers ==
    [error : {TRUE}, buckets : {None}]
    \cup
    [error : {FALSE}, buckets : Option(SeqUpTo(Buckets, MaxBuckets))]

UnwrapOr(o, default) == IF IsSome(o) THEN Unwrap(o) ELSE default

\* The line main prints for one bucket, as the pieces println! joins.
BucketLine(bucket) ==
    <<"  - ", UnwrapOr(bucket.name, "Unnamed"),
      " (created: ", UnwrapOr(bucket.creation_date, "Unknown"), ")">>

\* Everything main prints for a list_buckets response.
Printed(response) ==
    <<<<"Buckets:">>>> \o
    (IF IsSome(response.buckets)
     THEN [i \in 1..Len(Unwrap(response.buckets)) |->
              BucketLine(Unwrap(response.buckets)[i])]
     ELSE <<<<"No buckets found.">>>>)

\* main up to the tracing subscriber: the command line is parsed, the level
\* is derived from the verbosity. The parsed command is not looked at.
InitTracing ==
    /\ main_pc = "Parsed"
    /\ level' = LevelOf(cli.verbose)
    /\ main_pc' = "Configured"
    /\ UNCHANGED <<cli, stdout, images_output, extracted>>
    /\ UNCHANGED <<fs, host, pc, ami_id, device_path, result, locals, log,
                   existedAtStart, polls, sleeps>>

\* main from load_from_env to its return: one list_buckets request, whose
\* failure is main's error and whose answer is printed.
ListBuckets ==
    /\ main_pc = "Configured"
    /\ \E response \in ListBucketsAnswers :
          IF response.error
          THEN /\ main_pc' = "Failed"
               /\ UNCHANGED stdout
          ELSE /\ main_pc' = "Done"
               /\ stdout' = Printed(response)
    /\ UNCHANGED <<cli, level, images_output, extracted>>
    /\ UNCHANGED <<fs, host, pc, ami_id, device_path, result, locals, log,
                   existedAtStart, polls, sleeps>>

\* One execution of the binary: any command line, no pipeline call running.
InitMain ==
    /\ InitRun({})
    /\ main_pc = "Parsed"
    /\ cli \in App
    /\ level = Unset
    /\ stdout = <<>>
    /\ NoExtraction

NextMain ==
    \/ InitTracing
    \/ ListBuckets

SpecMain == InitMain /\ [][NextMain]_vars

\* ----------------------------------------------- snapshot extraction alone
\* The describe_images outputs with up to n images.
ListedAnswers(n) ==
    {[error |-> TRUE, images |-> None]}
        \cup {[error |-> FALSE, images |-> i] : i \in Option(SeqUpTo(Images, n))}

\* lib.rs 62-80 applied to one output: the ? on the request, then the chain
\* that takes the snapshot id.
ExtractSnapshot ==
    /\ extracted = NotDescribed
    /\ extracted' = Described(images_output)
    /\ UNCHANGED <<images_output, mainvars>>
    /\ UNCHANGED <<fs, host, pc, ami_id, device_path, result, locals, log,
                   existedAtStart, polls, sleeps>>

InitExtract ==
    /\ InitRun({})
    /\ fs = [p \in Paths |-> FALSE]
    /\ host = [instance_id |-> "i-1", zone |-> "us-east-1a"]
    /\ device_path = [r \in Runs |-> "/dev/xvdg"]
    /\ NoMain
    /\ extracted = NotDescribed
    /\ images_output \in ListedAnswers(MaxListed)

NextExtract == ExtractSnapshot

SpecExtract == InitExtract /\ [][NextExtract]_vars

\* ======================================================================
\* Properties
\* ======================================================================
Started == {r \in Runs : pc[r] # "Idle"}
Calls(r, op) == {i \in DOMAIN log[r] : log[r][i].op = op}
NCalls(r, op) == Cardinality(Calls(r, op))
VolumeOps == {"create_volume", "wait_until_volume_available", "attach_volume"}
NoVolumeCall(r) == \A i \in DOMAIN log[r] : log[r][i].op \notin VolumeOps

\* C1: a run whose device path exists when it starts ends in failure
\* (PreconditionViolation) without having sent any request: no catalog query,
\* no metadata request, no create, wait or attach, and no poll.
C1_ExistingPathFailsFast ==
    \A r \in Started :
        (IsSome(existedAtStart[r]) /\ Unwrap(existedAtStart[r]))
            => /\ pc[r] = "Failed"
               /\ result[r] = Err("PreconditionViolation", "device path already exists")
               /\ Len(log[r]) = 0
               /\ polls[r] = 0

C1_Witness ==
    \E r \in Started :
        /\ IsSome(existedAtStart[r]) /\ Unwrap(existedAtStart[r])
        /\ pc[r] = "Failed"

\* The requests of a run in the order of the statements that send them.
CodeOrder ==
    <<"describe_images", "get_ec2_token", "get_ec2_value", "get_ec2_value",
      "create_volume", "wait_until_volume_available", "attach_volume">>

\* The order the claim C2 states: identity first, then the catalog.
ClaimedOrder ==
    <<"get_ec2_token", "get_ec2_value", "get_ec2_value", "describe_images",
      "create_volume", "wait_until_volume_available", "attach_volume">>

IsPrefixOps(r, order) ==
    /\ Len(log[r]) <= Len(order)
    /\ \A i \in DOMAIN log[r] : log[r][i].op = order[i]

\* The requests a run has behind it at each position.
CallsBehind(p) ==
    CASE p \in {"Idle", "Start", "Checked"} -> 0
      [] p = "SnapshotResolved" -> 1
      [] p = "TokenAcquired" -> 2
      [] p = "InstanceIdRead" -> 3
      [] p = "IdentityResolved" -> 4
      [] p = "VolumeCreated" -> 5
      [] p = "VolumeAvailable" -> 6
      [] p \in {"Attached", "Sleeping", "DeviceReady"} -> 7

\* The positions in the order the code passes them, and the only moves.
Moves ==
    {<<"Start", "Checked">>, <<"Checked", "SnapshotResolved">>,
     <<"SnapshotResolved", "TokenAcquired">>, <<"TokenAcquired", "InstanceIdRead">>,
     <<"InstanceIdRead", "IdentityResolved">>, <<"IdentityResolved", "VolumeCreated">>,
     <<"VolumeCreated", "VolumeAvailable">>, <<"VolumeAvailable", "Attached">>,
     <<"Attached", "Sleeping">>, <<"Sleeping", "Attached">>,
     <<"Attached", "DeviceReady">>}

OrderedSoFar(r) ==
    /\ IsPrefixOps(r, CodeOrder)
    /\ pc[r] # "Failed" => Len(log[r]) = CallsBehind(pc[r])
    /\ Len(log[r]) >= 3 => log[r][3].args[1] = AWS_INSTANCE_ID_URL
    /\ Len(log[r]) >= 4 => log[r][4].args[1] = AWS_INSTANCE_AVAILABILITY_ZONE
    /\ polls[r] > 0 => Len(log[r]) = 7

\* C2 (as the claim states it): the requests of a run follow the order token,
\* instance id, availability zone, catalog query, create, wait, attach.
C2_IdentityBeforeCatalog == \A r \in Started : IsPrefixOps(r, ClaimedOrder)

\* C2 (amended): the positions are passed only in the order Start,
\* SnapshotResolved, IdentityResolved, VolumeCreated, VolumeAvailable, Attached,
\* DeviceReady, leaving it only for Failed: the catalog query comes first, then
\* token, instance id and availability zone, then create, wait, attach, and the
\* first poll after the attach; nothing is skipped or reordered.
C2_CatalogBeforeIdentity ==
    [][\A r \in Started :
          /\ pc'[r] # pc[r] => (<<pc[r], pc'[r]>> \in Moves \/ pc'[r] = "Failed")
          /\ OrderedSoFar(r)']_vars

C2_Witness ==
    \E r \in Started :
        /\ pc[r] = "DeviceReady"
        /\ sleeps[r] > 0
        /\ [i \in DOMAIN log[r] |-> log[r][i].op] = CodeOrder

\* C3: a run ends in success only in a step that finds the device path
\* existing, from the poll loop and hence after the attach was accepted, and
\* only when the path did not exist when the run began.
C3_SuccessSeesDevice ==
    [][\A r \in Started :
          (pc'[r] = "DeviceReady" /\ pc[r] # "DeviceReady")
              => /\ fs'[device_path[r]]
                 /\ existedAtStart[r] = Some(FALSE)
                 /\ pc[r] = "Attached"
                 /\ Len(log[r]) > 0
                 /\ log[r][Len(log[r])].op = "attach_volume"
                 /\ log[r][Len(log[r])].ret.accepted
                 /\ polls'[r] > 0
                 /\ result'[r] = Ok]_vars

C3_Witness ==
    \E r \in Started :
        /\ pc[r] = "DeviceReady"
        /\ result[r] = Ok
        /\ fs[device_path[r]]
        /\ existedAtStart[r] = Some(FALSE)

\* The shapes of a describe_images answer that hold no snapshot id to take.
NoSnapshotShapes == {"no image", "no mappings", "no snapshot"}

\* C4: when the catalog answers with no image, with a first image without
\* (or with an empty list of) block-device mappings, or with a first mapping
\* without snapshot id, the run has failed with CatalogResolutionFailure (the
\* code panics there) and the catalog query is its last request: no create,
\* wait or attach is sent.
C4_NoSnapshotNoVolume ==
    \A r \in Started :
        \A i \in Calls(r, "describe_images") :
            log[r][i].ret \in NoSnapshotShapes
                => /\ pc[r] = "Failed"
                   /\ result[r].class = "CatalogResolutionFailure"
                   /\ i = Len(log[r])
                   /\ NoVolumeCall(r)
                   /\ polls[r] = 0

C4_Witness ==
    \E r \in Started :
        /\ pc[r] = "Failed"
        /\ Len(log[r]) = 1
        /\ log[r][1].op = "describe_images"
        /\ log[r][1].ret = "no snapshot"

\* C5: when create_volume answers without error and without volume id, the
\* run has failed with ProvisioningFailure and neither the wait nor the attach
\* is ever sent.
C5_NoVolumeIdNoAttach ==
    \A r \in Started :
        \A i \in Calls(r, "create_volume") :
            (~log[r][i].ret.error /\ ~IsSome(log[r][i].ret.volume_id))
                => /\ pc[r] = "Failed"
                   /\ result[r].class = "ProvisioningFailure"
                   /\ i = Len(log[r])
                   /\ NCalls(r, "wait_until_volume_available") = 0
                   /\ NCalls(r, "attach_volume") = 0

C5_Witness ==
    \E r \in Started :
        /\ pc[r] = "Failed"
        /\ Len(log[r]) = 5
        /\ log[r][5].op = "create_volume"
        /\ ~log[r][5].ret.error
        /\ ~IsSome(log[r][5].ret.volume_id)

\* C6: when the volume does not settle within max_wait (60 seconds), the run
\* has failed with ProvisioningFailure, classified timeout, and no attach is
\* sent; and an attach is only ever sent for the volume of the request before
\* it, a wait that found that volume available within the 60 seconds.
C6_TimeoutNoAttach ==
    \A r \in Started :
        /\ \A i \in Calls(r, "wait_until_volume_available") :
               log[r][i].ret.after > 60
                   => /\ pc[r] = "Failed"
                      /\ result[r] = Err("ProvisioningFailure", "timeout")
                      /\ i = Len(log[r])
                      /\ NCalls(r, "attach_volume") = 0
        /\ \A i \in Calls(r, "attach_volume") :
               /\ i > 1
               /\ log[r][i - 1].op = "wait_until_volume_available"
               /\ log[r][i - 1].ret.state = "available"
               /\ log[r][i - 1].ret.after <= 60
               /\ log[r][i - 1].args[1] = log[r][i].args[2]

C6_Witness ==
    \E r \in Started :
        /\ pc[r] = "Failed"
        /\ Len(log[r]) = 6
        /\ log[r][6].op = "wait_until_volume_available"
        /\ log[r][6].ret.after > 60
        /\ log[r][6].ret.state = "available"

\* C7: a successful run has sent exactly one create_volume and one attach; the
\* attach names the volume id that create_volume answered with, the instance
\* id the metadata service holds for this host, and the device path of the
\* run; the create names the availability zone the metadata service holds and
\* the snapshot's id.
C7_OneVolumeAttachedToSelf ==
    \A r \in Started :
        pc[r] = "DeviceReady"
            => /\ NCalls(r, "create_volume") = 1
               /\ NCalls(r, "attach_volume") = 1
               /\ \A c \in Calls(r, "create_volume"), a \in Calls(r, "attach_volume") :
                      /\ ~log[r][c].ret.error
                      /\ log[r][a].args =
                             <<device_path[r], Unwrap(log[r][c].ret.volume_id),
                               host.instance_id>>
                      /\ log[r][c].args[1] = host.zone
                      /\ log[r][c].args[2] \in Snapshots

C7_Witness ==
    \E r \in Started :
        /\ pc[r] = "DeviceReady"
        /\ \E c \in Calls(r, "create_volume") : log[r][c].ret.volume_id = Some("vol-2")
        /\ host = [instance_id |-> "i-2", zone |-> "us-east-1b"]

\* How often a successful run sends each request.
Budget ==
    [get_ec2_token |-> 1, get_ec2_value |-> 2, describe_images |-> 1,
     create_volume |-> 1, wait_until_volume_available |-> 1, attach_volume |-> 1]

\* C8: no request is ever sent more often than 1 token acquisition, 2 value
\* reads, 1 catalog query, 1 create, 1 wait, 1 attach; a successful run has
\* sent exactly these, however many polls it made.

C8_CallCounts ==
    \A r \in Started :
        /\ \A i \in DOMAIN log[r] : log[r][i].op \in DOMAIN Budget
        /\ \A op \in DOMAIN Budget :
               /\ NCalls(r, op) <= Budget[op]
               /\ pc[r] = "DeviceReady" => NCalls(r, op) = Budget[op]

C8_Witness ==
    \E r \in Started :
        /\ pc[r] = "DeviceReady"
        /\ polls[r] = MaxSleeps + 1
        /\ sleeps[r] = MaxSleeps
        /\ Len(log[r]) = 7

\* Whether a request was answered with a failure.
CallFailed(c) ==
    CASE c.op = "describe_images" -> c.ret = "error"
      [] c.op \in {"get_ec2_token", "get_ec2_value"} ->
            \/ c.ret.latency > 3
            \/ c.ret.error
            \/ c.ret.status \notin 200..299
            \/ c.ret.body # "text"
      [] c.op = "create_volume" -> c.ret.error
      [] c.op = "wait_until_volume_available" ->
            c.ret.after > 60 \/ c.ret.state # "available"
      [] c.op = "attach_volume" -> ~c.ret.accepted

\* C9: a request that is answered with a failure (metadata request timed out
\* after 3 seconds, non-success status, unreadable or non-UTF-8 body, catalog
\* error, create error, wait error or timeout, attach rejected) is the last
\* request of its run, which is Failed with an Err and has polled nothing; and
\* a Failed run stays Failed, sends nothing more, polls nothing more and keeps
\* its result.
C9_FailureIsTerminal ==
    [][\A r \in Started :
          /\ \A i \in DOMAIN log'[r] :
                 CallFailed(log'[r][i])
                     => /\ i = Len(log'[r])
                        /\ pc'[r] = "Failed"
                        /\ result'[r].how = "Err"
                        /\ polls'[r] = 0
          /\ pc[r] = "Failed"
                 => /\ pc'[r] = "Failed"
                    /\ log'[r] = log[r]
                    /\ polls'[r] = polls[r]
                    /\ sleeps'[r] = sleeps[r]
                    /\ result'[r] = result[r]]_vars

C9_Witness ==
    \E r \in Started :
        /\ pc[r] = "Failed"
        /\ result[r] = Err("MetadataReadFailure", "status")
        /\ Len(log[r]) = 4
        /\ log[r][4].ret.status = 404
        /\ log[r][4].ret.latency <= 3

\* Everything a run holds: its arguments, position, locals, result, requests.
RunState(r) ==
    <<ami_id[r], device_path[r], pc[r], snapshot_id[r], token[r], id[r],
      ec2_host_instance_id[r], zone[r], volume_id[r], result[r], log[r],
      existedAtStart[r], polls[r], sleeps[r]>>

Created(r) ==
    \E c \in Calls(r, "create_volume") :
        ~log[r][c].ret.error /\ IsSome(log[r][c].ret.volume_id)

AttachAccepted(r) == \E a \in Calls(r, "attach_volume") : log[r][a].ret.accepted

\* The step appends to the log of r the request a run that is alone sends at
\* this place, with the arguments of r.
SendsAsAlone(r) ==
    LET n == Len(log[r]) + 1
        sent == log'[r][n]
    IN  /\ n <= Len(CodeOrder)
        /\ log'[r] = Append(log[r], sent)
        /\ sent.op = CodeOrder[n]
        /\ n = CallsBehind(pc[r]) + 1
        /\ sent.op = "describe_images" => sent.args = <<ami_id[r]>>
        /\ sent.op = "get_ec2_value" => sent.args[2] = token[r]
        /\ sent.op = "create_volume" => sent.args = <<host.zone, snapshot_id[r]>>
        /\ sent.op = "wait_until_volume_available" => sent.args = <<volume_id[r]>>
        /\ sent.op = "attach_volume"
               => sent.args = <<device_path[r], volume_id[r], host.instance_id>>

\* C10: two concurrent runs share no mutable state.  A step that changes what
\* one run holds changes nothing of the other run, of the filesystem or of the
\* host, and a change of the filesystem changes no run; whether a run passes
\* its precondition and whether it leaves the poll loop is decided by the entry
\* at its own device path alone; and each run sends the requests of a run that
\* is alone, in the same order, with its own arguments.  (That two runs for one
\* device path are not coordinated is the state C10_Witness.)
C10_NoSharedState ==
    [][\A r \in Runs :
          /\ \A o \in Runs \ {r} :
                 RunState(r)' # RunState(r)
                     => RunState(o)' = RunState(o) /\ fs' = fs /\ host' = host
          /\ (pc[r] = "Start" /\ pc'[r] # "Start")
                 => (pc'[r] = "Checked") = ~fs[device_path[r]]
          /\ (pc[r] = "Attached" /\ pc'[r] # "Attached")
                 => (pc'[r] = "DeviceReady") = fs[device_path[r]]
          /\ log'[r] # log[r] => SendsAsAlone(r)]_vars

\* Both runs target one device path, both passed the precondition, and both
\* created a volume and had its attach for that path accepted.
C10_Witness ==
    /\ device_path[1] = device_path[2]
    /\ \A r \in Runs :
           /\ existedAtStart[r] = Some(FALSE)
           /\ Created(r)
           /\ AttachAccepted(r)
           /\ \E a \in Calls(r, "attach_volume") : log[r][a].args[1] = device_path[1]


\* C11: a `convert` command whose source is an AMI and whose sink is a device
\* calls load_ami_to_device with source_id as the image id and sink_id as
\* the device path: when main has returned for such a command line, a pipeline
\* call with these arguments has been started.
ConvertAmiToDevice ==
    /\ cli.command.kind = "Convert"
    /\ cli.command.source = "Ami"
    /\ cli.command.sink = "Device"

C11_ConvertInvokesPipeline ==
    (main_pc = "Done" /\ ConvertAmiToDevice)
        => \E r \in Started :
              /\ ami_id[r] = cli.command.source_id
              /\ device_path[r] = cli.command.sink_id


\* The requests a run has sent to the instance metadata service, in order.
IsMetadataCall(c) == c.op \in {"get_ec2_token", "get_ec2_value"}
MetadataCalls(r) == SelectSeq(log[r], IsMetadataCall)

\* The requests of one identity resolution as the claim orders them.
IdentityRequests ==
    << [op |-> "get_ec2_token", url |-> AWS_TOKEN_API_URL],
       [op |-> "get_ec2_value", url |-> AWS_INSTANCE_ID_URL],
       [op |-> "get_ec2_value", url |-> AWS_INSTANCE_AVAILABILITY_ZONE] >>

IdentityInOrder(r) ==
    LET m == MetadataCalls(r)
    IN  /\ Len(m) <= Len(IdentityRequests)
        /\ \A i \in 1..Len(m) :
               /\ m[i].op = IdentityRequests[i].op
               /\ m[i].args[1] = IdentityRequests[i].url
        /\ \A i \in 1..Len(m) : CallFailed(m[i]) => Len(m) = i
        /\ \A i \in 2..Len(m) : m[i].args[2] \in Tokens /\ m[i].args[2] = m[2].args[2]
        /\ result[r].detail = "failed to parse header value"
               => Len(m) = 1 /\ ~CallFailed(m[1])
        /\ pc[r] \in {"TokenAcquired", "InstanceIdRead"}
               => /\ token[r] \in Tokens
                  /\ \A i \in 2..Len(m) : m[i].args[2] = token[r]

\* The token a run holds is bound by its token acquisition and by nothing else.
TokenFromAcquisition(r) ==
    token'[r] # token[r]
        => \/ token'[r] = NoToken
           \/ /\ pc[r] = "SnapshotResolved"
              /\ MetadataCalls(r) = <<>>
              /\ Len(MetadataCalls(r)') = 1
              /\ ~CallFailed(MetadataCalls(r)'[1])

\* C12: identity resolution is exactly one token acquisition, then the
\* instance-id read, then the availability-zone read, in that order; both reads
\* present the token that this one acquisition returned; when the acquisition
\* fails no value is read, and when the instance-id read fails the zone read is
\* not sent.
C12_IdentityResolution ==
    [][\A r \in Runs : IdentityInOrder(r)' /\ TokenFromAcquisition(r)]_vars

\* A run acquired the token "tok-2" (TOK_2) and presented it in both reads.
C12_Witness ==
    \E r \in Started :
        /\ pc[r] = "IdentityResolved"
        /\ Len(MetadataCalls(r)) = 3
        /\ MetadataCalls(r)[2].args = <<AWS_INSTANCE_ID_URL, TOK_2>>
        /\ MetadataCalls(r)[3].args = <<AWS_INSTANCE_AVAILABILITY_ZONE, TOK_2>>


\* A run is in the poll loop: its attach was accepted and it has not returned.
InPollLoop(r) == pc[r] \in {"Attached", "Sleeping"}

\* One step of the poll loop: the existence check comes first and decides, a
\* check that finds the path returns Ok at once without a sleep, and a sleep
\* is taken only after a check that did not find the path, one per such check.
PollLoopStep(r) ==
    /\ (pc[r] = "Attached" /\ pc'[r] # "Attached")
           => /\ pc'[r] = (IF fs[device_path[r]] THEN "DeviceReady" ELSE "Sleeping")
              /\ sleeps'[r] = sleeps[r]
              /\ polls[r] <= MaxSleeps => polls'[r] = polls[r] + 1
    /\ sleeps'[r] # sleeps[r]
           => /\ pc[r] = "Sleeping" /\ pc'[r] = "Attached"
              /\ sleeps'[r] = sleeps[r] + 1
    /\ (pc[r] = "Sleeping" /\ pc'[r] # "Sleeping")
           => pc'[r] = "Attached" /\ polls'[r] = polls[r]
    /\ polls'[r] <= MaxSleeps
           => polls'[r] = sleeps'[r] +
                  (IF pc'[r] \in {"Sleeping", "DeviceReady"} THEN 1 ELSE 0)
    /\ polls'[r] = MaxSleeps + 1 => sleeps'[r] = MaxSleeps

\* C13: once the attach was accepted, if the device path eventually exists
\* and stays, the run eventually returns success, under fair scheduling of the
\* poll loop; the loop checks existence before it sleeps, returns at the first
\* check that finds the path, and sleeps one interval per failed check only.
C13_DeviceWaitTerminates ==
    /\ \A r \in Runs :
           (<>[](fs[device_path[r]]))
               => (InPollLoop(r) ~> (pc[r] = "DeviceReady" /\ result[r] = Ok))
    /\ [][\A r \in Runs : PollLoopStep(r)]_vars

\* A run returned success after one check that did not find the path and one
\* sleep.
C13_Witness ==
    \E r \in Started :
        /\ pc[r] = "DeviceReady"
        /\ result[r] = Ok
        /\ polls[r] = 2
        /\ sleeps[r] = 1


\* C14: the wait for the device has no deadline and no failure exit.  A run
\* in the poll loop leaves it only by a check that finds the path, and then
\* with success; as long as the path does not exist the run stays in the loop
\* with no result, however many sleeps have passed; and no run ever ends with a
\* device-wait failure.
C14_DeviceWaitUnbounded ==
    /\ \A r \in Runs :
           []((InPollLoop(r) /\ [](~fs[device_path[r]])) => []InPollLoop(r))
    /\ [][\A r \in Runs :
             /\ InPollLoop(r)
                    => /\ InPollLoop(r)' \/ pc'[r] = "DeviceReady"
                       /\ pc'[r] = "DeviceReady" => fs[device_path[r]]
                       /\ InPollLoop(r)' => result'[r] = NoResult
             /\ result'[r].class # "DeviceWaitFailure"]_vars

\* A run is still waiting, with no result, after more checks and sleeps than
\* are counted, at a path that does not exist.
C14_Witness ==
    \E r \in Started :
        /\ pc[r] = "Attached"
        /\ result[r] = NoResult
        /\ polls[r] = MaxSleeps + 1
        /\ sleeps[r] = MaxSleeps
        /\ ~fs[device_path[r]]


\* The requests that take a volume away again.
RemovingOps == {"delete_volume", "detach_volume"}

\* The volumes the requests of a run have created remotely, those they have
\* deleted, and those that are left.
VolumesCreated(r) ==
    {Unwrap(log[r][c].ret.volume_id) :
        c \in {x \in Calls(r, "create_volume") :
                  ~log[r][x].ret.error /\ IsSome(log[r][x].ret.volume_id)}}
VolumesDeleted(r) ==
    {log[r][i].args[1] : i \in {x \in DOMAIN log[r] : log[r][x].op = "delete_volume"}}
VolumesLeft(r) == VolumesCreated(r) \ VolumesDeleted(r)

\* C15: the pipeline never deletes or detaches a volume and a run creates at
\* most one; a run that fails after its create succeeded (the wait ran into
\* its deadline or failed, the attach was rejected) leaves the created volume
\* in existence: the failed request is the last one it sends.
C15_NoCleanup ==
    \A r \in Started :
        /\ \A i \in DOMAIN log[r] : log[r][i].op \notin RemovingOps
        /\ NCalls(r, "create_volume") <= 1
        /\ Cardinality(VolumesCreated(r)) <= 1
        /\ VolumesLeft(r) = VolumesCreated(r)
        /\ (pc[r] = "Failed" /\ Created(r))
               => /\ log[r][Len(log[r])].op
                         \in {"wait_until_volume_available", "attach_volume"}
                  /\ CallFailed(log[r][Len(log[r])])
                  /\ Cardinality(VolumesLeft(r)) = 1

\* A run created the volume "vol-1", had its attach rejected and failed: the
\* volume is left behind.
C15_Witness ==
    \E r \in Started :
        /\ pc[r] = "Failed"
        /\ result[r] = Err("AttachFailure", "attach_volume")
        /\ VolumesLeft(r) = {"vol-1"}


\* The snapshot id at the first mapping of the first image of an output, read
\* off the output by position.
FirstOfFirst(output) ==
    IF output.images = None THEN None
    ELSE IF Unwrap(output.images) = <<>> THEN None
    ELSE IF Unwrap(output.images)[1].block_device_mappings = None THEN None
    ELSE IF Unwrap(Unwrap(output.images)[1].block_device_mappings) = <<>> THEN None
    ELSE IF Unwrap(Unwrap(output.images)[1].block_device_mappings)[1].ebs = None THEN None
    ELSE Unwrap(Unwrap(Unwrap(output.images)[1].block_device_mappings)[1].ebs).snapshot_id

\* C16: for every catalog response the snapshot taken is the snapshot id of
\* the first mapping of the first image; later images and later mappings are
\* never consulted, so that when the first mapping has no snapshot id nothing
\* is taken (the run fails), even if a later mapping or image carries one.
C16_FirstMappingOfFirstImage ==
    (extracted # NotDescribed /\ ~images_output.error)
        => /\ extracted.snapshot_id = FirstOfFirst(images_output)
           /\ ~extracted.error
           /\ extracted.shape \in NoSnapshotShapes
                  <=> FirstOfFirst(images_output) = None

\* The first mapping of the first image has no snapshot id, its second mapping
\* has "snap-1" and the second image has "snap-2": no snapshot id is taken.
C16_Witness ==
    /\ extracted # NotDescribed
    /\ images_output =
         [error |-> FALSE,
          images |-> Some(<<
             [block_device_mappings |-> Some(<<
                 [ebs |-> Some([snapshot_id |-> None])],
                 [ebs |-> Some([snapshot_id |-> Some("snap-1")])] >>)],
             [block_device_mappings |-> Some(<<
                 [ebs |-> Some([snapshot_id |-> Some("snap-2")])] >>)] >>)]
    /\ extracted.snapshot_id = None


AttachRejected(r) == \E a \in Calls(r, "attach_volume") : ~log[r][a].ret.accepted

\* C17: a run sends a single attach request; when it is rejected the run is
\* terminal with an attach failure, the rejected attach is the last thing it
\* did, and the poll loop is never entered: no existence check, no sleep.
C17_RejectedAttachFails ==
    \A r \in Started :
        /\ NCalls(r, "attach_volume") <= 1
        /\ AttachRejected(r)
               => /\ pc[r] = "Failed"
                  /\ result[r] = Err("AttachFailure", "attach_volume")
                  /\ log[r][Len(log[r])].op = "attach_volume"
                  /\ polls[r] = 0
                  /\ sleeps[r] = 0
        /\ polls[r] > 0 => AttachAccepted(r)

\* The attach of a run was rejected and the run failed without a poll, while
\* its device path has come into existence.
C17_Witness ==
    \E r \in Started :
        /\ AttachRejected(r)
        /\ pc[r] = "Failed"
        /\ result[r].class = "AttachFailure"
        /\ polls[r] = 0
        /\ fs[device_path[r]]


\* The first request of a run is the catalog query and it did not yield a
\* snapshot id.
CatalogFailed(r) ==
    /\ Len(log[r]) >= 1
    /\ log[r][1].op = "describe_images"
    /\ log[r][1].ret \in NoSnapshotShapes \cup {"error"}

\* C18: a failure of the catalog resolution happens before any metadata
\* request: a run that fails there has acquired no token and read no value, its
\* catalog query is the only request it has sent; and a run that has sent a
\* metadata request has a catalog answer with a snapshot id behind it.
C18_CatalogFailureBeforeMetadata ==
    \A r \in Started :
        /\ (CatalogFailed(r) \/ result[r].class = "CatalogResolutionFailure")
               => /\ pc[r] = "Failed"
                  /\ result[r].class = "CatalogResolutionFailure"
                  /\ CatalogFailed(r)
                  /\ Len(log[r]) = 1
                  /\ MetadataCalls(r) = <<>>
        /\ MetadataCalls(r) # <<>>
               => /\ log[r][1].op = "describe_images"
                  /\ log[r][1].ret = "snapshot"

\* A run panicked for want of a snapshot id with one request sent, none of
\* them to the metadata service.
C18_Witness ==
    \E r \in Started :
        /\ result[r] = Panic("CatalogResolutionFailure",
                             "Failed to find snapshot ID for the given AMI ID")
        /\ Len(log[r]) = 1
        /\ NCalls(r, "get_ec2_token") = 0
        /\ NCalls(r, "get_ec2_value") = 0


\* The positions of a run between its precondition check and its poll loop.
BetweenCheckAndLoop ==
    {"Checked", "SnapshotResolved", "TokenAcquired", "InstanceIdRead",
     "IdentityResolved", "VolumeCreated", "VolumeAvailable"}

\* The answer to a request makes the run fail: the request failed, or the
\* output lacks the snapshot id or the volume id the run takes from it.
AnswerFails(c) ==
    \/ CallFailed(c)
    \/ c.op = "describe_images" /\ c.ret \in NoSnapshotShapes
    \/ c.op = "create_volume" /\ c.ret.volume_id = None

\* The run is about to read a metadata value with a token that cannot be put
\* into the header of the request.
TokenRefused(r) ==
    /\ pc[r] \in {"TokenAcquired", "InstanceIdRead"}
    /\ \E i \in DOMAIN token[r] : token[r][i] < 32 /\ token[r][i] # 9

\* C19: the existence of the device path is read only when the run starts
\* and in the poll loop.  Between the two every step fails or goes on by what
\* the run holds and by the answer to its request alone (it sends the request,
\* unless the token it holds cannot be sent), so a path that appears between
\* the precondition check and the attach aborts nothing: the run still creates
\* and attaches, and its first poll, finding the path, reports success.
C19_PathReadAtStartAndInLoop ==
    [][\A r \in Runs :
          /\ existedAtStart'[r] # existedAtStart[r] => pc[r] = "Start"
          /\ polls'[r] # polls[r] => pc[r] = "Attached"
          /\ (pc[r] \in BetweenCheckAndLoop /\ pc'[r] # pc[r])
                 => /\ IF TokenRefused(r)
                       THEN log'[r] = log[r] /\ pc'[r] = "Failed"
                       ELSE /\ Len(log'[r]) = Len(log[r]) + 1
                            /\ (pc'[r] = "Failed")
                                   = AnswerFails(log'[r][Len(log'[r])])
                    /\ result'[r].class # "PreconditionViolation"
          /\ (pc[r] = "Attached" /\ polls[r] = 0 /\ fs[device_path[r]]
                                 /\ pc'[r] # pc[r])
                 => /\ pc'[r] = "DeviceReady"
                    /\ result'[r] = Ok
                    /\ polls'[r] = 1
                    /\ sleeps'[r] = 0]_vars

\* The device path did not exist when the run checked it and exists now, before
\* the attach: the run has gone on, created its volume and waited for it.
C19_Witness ==
    \E r \in Started :
        /\ existedAtStart[r] = Some(FALSE)
        /\ fs[device_path[r]]
        /\ pc[r] = "VolumeAvailable"
        /\ Created(r)
        /\ result[r] = NoResult

====
